---- MODULE Spec2Model ----
(***************************************************************************)
(* A model of the GBM surface layer of egl-gbm (src/src/gbm-surface.c):    *)
(* one native window (struct gbm_surface), the GbmSurface object created   *)
(* for it, its fixed pool of stream-image slots, the event pump, and the   *)
(* lock / release / destroy entry points.  The EGLStream pipeline, the     *)
(* dma-buf export/import and the allocator are the environment: each of    *)
(* their calls is a nondeterministic choice among the answers the call can *)
(* give.  The handle registry (gbm-handle.c) and eGbmSetError              *)
(* (gbm-display.c) are not part of the sources at hand and are modelled    *)
(* from their documented contract.                                         *)
(***************************************************************************)
EXTENDS Integers, FiniteSets, Sequences, TLC

(* ----------------------------- constants ------------------------------ *)

\* #define MAX_STREAM_IMAGES 10
MAX_STREAM_IMAGES == 10

\* EGL_NO_IMAGE_KHR and a NULL struct gbm_bo pointer.
EGL_NO_IMAGE_KHR == 0
NULL == 0

(* ------------------------------- bounds ------------------------------- *)

\* The frames of the stream: the pipeline presents frames in, and removes,
\* only the images with the MaxFrames smallest handles; the other images of
\* its pool are announced and stay.
MaxFrames == 1
\* Slots left with a buffer object and no image: the pipeline removes the
\* image of a locked slot only while fewer than MaxOrphans slots are so.
MaxOrphans == 2
\* Distinct addresses gbm_bo_import can hand out (an address can be reused
\* once the buffer object that lived there has been destroyed).
MaxBo == 1
\* The create hook is not entered once the display's reference count has
\* reached MaxDpyRef (the registry's own reference makes it 1).
MaxDpyRef == 2
\* The objects the handle registry is followed for, and the reference count
\* at which eGbmRefHandle is not called on an object any more.
MaxObjects == 2
MaxRefCount == 3

Slots == 0 .. (MAX_STREAM_IMAGES - 1)
\* The value of the loop index after a scan of images[] that found nothing.
NoSlot == MAX_STREAM_IMAGES
\* EGLImage handles: the stream never keeps more than MAX_STREAM_IMAGES + 1.
ImageIds == 1 .. (MAX_STREAM_IMAGES + 1)
Frames == 1 .. MaxFrames
\* How many images the stream keeps: its frames only, as many as the table
\* holds, or one more than that.
PoolTargets == {MaxFrames, MAX_STREAM_IMAGES, MAX_STREAM_IMAGES + 1}
BoIds == 1 .. MaxBo
Objects == 1 .. MaxObjects

VARIABLES
    ndebug,      \* TRUE: built with NDEBUG (assert() compiles to nothing)
    pc,          \* "idle": between calls; "pump": in the loop of
                 \* PumpSurfEvents; "after": PumpSurfEvents returned;
                 \* "ret": an entry point returned; "dead": the process
                 \* aborted or faulted; "undef": an entry point returned after
                 \* undefined behaviour (the process is not followed further)
    caller,      \* who runs the pump: "none" | "create" | "has" | "lock"
    surfMem,     \* the GbmSurface allocation: "none" | "live" | "freed"
    surf,        \* the fields of the GbmSurface object
    registered,  \* the surface's handle is in the handle registry
    priv,        \* the native window's private pointer is non-NULL
    dpyRef,      \* display->base.refCount
    streamLive,  \* the pipeline's EGLStream exists
    eglLive,     \* the pipeline's stream producer surface exists
    liveImages,  \* EGLImages created and not destroyed
    acquired,    \* EGLImages acquired from the stream and not released
    liveBos,     \* gbm_bo objects imported and not destroyed
    poolTarget,  \* images the stream keeps (0: no stream); it announces a new
                 \* image, before it reports anything else than a removal,
                 \* whenever it has fewer
    pumpOk,      \* return value of the PumpSurfEvents that just ran
    sawAvail,    \* that pump has seen EGL_STREAM_IMAGE_AVAILABLE_NV
    \* ---- what the running / last entry point did, until its caller goes on
    ret,         \* the entry point that ran last and its result (NoRet)
    calls,       \* the collaborator calls it made
    error,       \* the code it gave eGbmSetError ("none": no call)
    \* ---- history
    refBefore,   \* dpyRef at entry of the last create call
    resolved,    \* the last create call resolved its display handle
    firstBo,     \* image -> buffer object its first successful lock returned
    ub,          \* undefined behaviour executed: "none" | "null_deref" |
                 \* "double_free" | "use_after_free"
    \* ---- the handle registry on its own (gbm-handle.c)
    handles,     \* object -> its reference count, whether the table holds
                 \* it, and how often its free function has run
    hret         \* the registry call made last and its result (NoHandleRet)

\* The surface layer's own state.
surfaceVars == <<pc, caller, surfMem, surf, registered, priv, dpyRef,
                 streamLive, eglLive, liveImages, acquired, liveBos,
                 poolTarget, pumpOk, sawAvail, ret, calls, error, refBefore,
                 resolved, firstBo, ub>>
handleVars == <<handles, hret>>

vars == <<ndebug, surfaceVars, handleVars>>

\* What no entry point of the surface layer changes.
buildVars == <<ndebug, handleVars>>

\* Groups of variables, for the frames of the actions.
pipeVars == <<streamLive, eglLive, liveImages, acquired, liveBos, poolTarget>>
regVars == <<registered, priv, dpyRef>>
pumpVars == <<pumpOk, sawAvail>>
createVars == <<refBefore, resolved>>

(* ------------------------------ helpers ------------------------------- *)

\* calloc(1, sizeof(*surf)): every field zero.
EmptySlot == [image |-> EGL_NO_IMAGE_KHR, bo |-> NULL, locked |-> FALSE]
ZeroSurf ==
    [refCount |-> 0, stream |-> FALSE, egl |-> FALSE,
     images |-> [i \in Slots |-> EmptySlot], freeImages |-> FALSE]

\* Calls counted: PumpSurfEvents, QueryStreamConsumerEventNV (1: at least
\* one), StreamAcquireImageNV, StreamReleaseImageNV, the dma-buf export
\* calls (1: at least one), gbm_bo_import, gbm_bo_destroy; and the sync
\* object given to the last StreamReleaseImageNV.
NoCalls ==
    [pump |-> 0, query |-> 0, acquire |-> 0, release |-> 0, export |-> 0,
     import |-> 0, boDestroy |-> 0, sync |-> "none"]

\* No entry point has run; and the record of one that ran with result val.
\* img, again: the image StreamAcquireImageNV handed to a lock, and whether a
\* lock had returned a buffer object for that image before.  hint:
\* surf->freeImages as eGbmSurfaceHasFreeBuffers found it.
NoRet ==
    [op |-> "none", val |-> 0, img |-> EGL_NO_IMAGE_KHR, again |-> FALSE,
     hint |-> FALSE]
Ret(op, val) == [NoRet EXCEPT !.op = op, !.val = val]
NoFirstBo == [img \in ImageIds |-> NULL]

\* An object as its creator sets it up before it calls eGbmAddObject:
\* base.refCount = 1, base.free set and not run, no handle yet.
NewObject == [refCount |-> 1, inTable |-> FALSE, freed |-> 0]

\* No registry call has been made; op, obj: the call made last and the object
\* its argument names; found: it returned a handle or an object, or true;
\* stale: the object's reference count had reached zero before the call.
NoHandleRet == [op |-> "none", obj |-> 0, found |-> FALSE, stale |-> FALSE]

Min(S) == CHOOSE x \in S : \A y \in S : x <= y

\* for (i = 0; i < ARRAY_LEN(surf->images); i++) if (...) break;
\* with S the slots that pass the test: the value of i after the loop.
FirstSlot(S) == IF S = {} THEN NoSlot ELSE Min(S)

\* eGbmRefHandle / eGbmUnrefObject on an object's reference count.
eGbmRefHandle(n) == n + 1
eGbmUnrefObject(n) == n - 1

Init ==
    /\ ndebug \in BOOLEAN
    /\ pc = "idle"
    /\ caller = "none"
    /\ surfMem = "none"
    /\ surf = ZeroSurf
    /\ registered = FALSE
    /\ priv = FALSE
    /\ dpyRef = 1
    /\ streamLive = FALSE
    /\ eglLive = FALSE
    /\ liveImages = {}
    /\ acquired = {}
    /\ liveBos = {}
    /\ poolTarget = 0
    /\ pumpOk = FALSE
    /\ sawAvail = FALSE
    /\ ret = NoRet
    /\ calls = NoCalls
    /\ error = "none"
    /\ refBefore = 1
    /\ resolved = FALSE
    /\ firstBo = NoFirstBo
    /\ ub = "none"
    /\ handles = [o \in Objects |-> NewObject]
    /\ hret = NoHandleRet

\* The caller takes the result of the entry point and goes on.
Return ==
    /\ pc = "ret"
    /\ pc' = "idle"
    /\ ret' = NoRet
    /\ calls' = NoCalls
    /\ error' = "none"
    /\ pumpOk' = FALSE
    /\ sawAvail' = FALSE
    /\ UNCHANGED <<buildVars, caller, surfMem, surf, regVars, pipeVars,
                   createVars, firstBo, ub>>

(* ---------------------------- FreeSurface ----------------------------- *)

\* The environment as an entry point sees it part-way through its body.
Env ==
    [dpyRef |-> dpyRef, streamLive |-> streamLive, eglLive |-> eglLive,
     liveImages |-> liveImages, acquired |-> acquired, liveBos |-> liveBos,
     calls |-> calls]

SlotImages(obj) == {obj.images[i].image : i \in Slots} \ {EGL_NO_IMAGE_KHR}
SlotBos(obj) == {obj.images[i].bo : i \in Slots} \ {NULL}

\* gbm_bo_destroy(bo) on the set of live buffer objects, and whether the call
\* frees an address that holds no buffer object any more.
BoDestroy(bos, bo) == bos \ {bo}
IsDoubleFree(bos, bo) == bo \notin bos

\* FreeSurface passes every non-NULL images[i].bo to gbm_bo_destroy; that is a
\* double free when the address holds no buffer object any more, or when an
\* earlier slot held the same address.
FreeDoubleFrees(obj, bos) ==
    \E i \in Slots :
        /\ obj.images[i].bo # NULL
        /\ \/ IsDoubleFree(bos, obj.images[i].bo)
           \/ \E j \in Slots : j < i /\ obj.images[j].bo = obj.images[i].bo

\* static void FreeSurface(GbmObject* obj), run on environment e.  isNull: obj
\* is NULL.  crash: the allocator aborts on a double free (possible only when
\* there is one); the process then stops inside gbm_bo_destroy.
FreeSurface(isNull, obj, e, crash) ==
    IF isNull
    THEN /\ dpyRef' = e.dpyRef
         /\ streamLive' = e.streamLive
         /\ eglLive' = e.eglLive
         /\ liveImages' = e.liveImages
         /\ acquired' = e.acquired
         /\ liveBos' = e.liveBos
         /\ calls' = e.calls
         /\ UNCHANGED <<surf, ub>>
    ELSE IF crash
    THEN /\ FreeDoubleFrees(obj, e.liveBos)
         /\ ub' = "double_free"
         /\ dpyRef' = e.dpyRef
         /\ streamLive' = e.streamLive
         /\ eglLive' = e.eglLive
         /\ liveImages' = e.liveImages
         /\ acquired' = e.acquired
         /\ liveBos' = e.liveBos
         /\ calls' = e.calls
         /\ UNCHANGED surf
    ELSE /\ liveImages' = e.liveImages \ SlotImages(obj)
         /\ acquired' = e.acquired \ SlotImages(obj)
         /\ liveBos' = e.liveBos \ SlotBos(obj)
         /\ eglLive' = IF obj.egl THEN FALSE ELSE e.eglLive
         /\ streamLive' = IF obj.stream THEN FALSE ELSE e.streamLive
         /\ dpyRef' = eGbmUnrefObject(e.dpyRef)
         /\ calls' = [e.calls EXCEPT
                !.boDestroy = @ + Cardinality({i \in Slots :
                       obj.images[i].bo # NULL})]
         /\ ub' = IF FreeDoubleFrees(obj, e.liveBos) THEN "double_free" ELSE ub
         /\ surf' = ZeroSurf

\* eGbmSetError(data, err): the display's error state takes the code.
eGbmSetError(err) == error' = err

(* --------------------- eGbmCreatePlatformWindowSurfaceHook ------------ *)

CreateEntry ==
    /\ pc = "idle"
    /\ surfMem = "none"
    /\ dpyRef < MaxDpyRef
    /\ refBefore' = dpyRef

\* fail: ... eGbmSetError(display->data, err); return EGL_NO_SURFACE;
CreateFailReturn(err) ==
    /\ eGbmSetError(err)
    /\ ret' = Ret("create", 0)
    /\ pc' = "ret"
    /\ caller' = "none"
    /\ surfMem' = "none"
    /\ UNCHANGED <<buildVars, registered, priv, pumpVars, firstBo>>

\* eGbmRefHandle(dpy) finds no display: return EGL_NO_SURFACE, no error set.
CreateBadDisplay ==
    /\ CreateEntry
    /\ resolved' = FALSE
    /\ ret' = Ret("create", 0)
    /\ pc' = "ret"
    /\ UNCHANGED <<buildVars, caller, surfMem, surf, regVars, pipeVars, pumpVars,
                   calls, error, firstBo, ub>>

\* nativeWin is NULL.  The initialiser of surfAttrs reads s->v0.width before
\* the test of s: the read is undefined.  Either the process faults there, or
\* the read is harmless and the test of s takes the failure path:
\* EGL_BAD_NATIVE_WINDOW, FreeSurface(NULL).
CreateNullWindow(crash) ==
    /\ CreateEntry
    /\ resolved' = TRUE
    /\ ub' = "null_deref"
    /\ dpyRef' = eGbmRefHandle(dpyRef)
    /\ IF crash
       THEN /\ pc' = "dead"
            /\ UNCHANGED <<ret, error>>
       ELSE /\ pc' = "undef"
            /\ ret' = Ret("create", 0)
            /\ eGbmSetError("EGL_BAD_NATIVE_WINDOW")
    /\ UNCHANGED <<buildVars, caller, surfMem, surf, registered, priv, pipeVars,
                   pumpVars, calls, firstBo>>

\* GetConfigAttrib fails or the config has no EGL_STREAM_BIT_KHR
\* (EGL_BAD_CONFIG), or calloc fails (EGL_BAD_ALLOC): surf is still NULL at fail.
CreateFailEarly(err) ==
    /\ CreateEntry
    /\ resolved' = TRUE
    /\ FreeSurface(TRUE, ZeroSurf, [Env EXCEPT !.dpyRef = eGbmRefHandle(dpyRef)], FALSE)
    /\ CreateFailReturn(err)
    /\ UNCHANGED poolTarget

\* CreateStreamKHR, StreamImageConsumerConnectNV or
\* CreateStreamProducerSurfaceKHR fails: goto fail with err as initialised.
CreateFailPipeline(step) ==
    /\ CreateEntry
    /\ resolved' = TRUE
    /\ LET hasStream == step # "stream"
           obj == [ZeroSurf EXCEPT !.refCount = 1, !.stream = hasStream]
           e == [Env EXCEPT !.dpyRef = eGbmRefHandle(dpyRef),
                            !.streamLive = hasStream]
       IN  FreeSurface(FALSE, obj, e, FALSE)
    /\ CreateFailReturn("EGL_SUCCESS")
    /\ UNCHANGED poolTarget

\* Everything up to the initial PumpSurfEvents succeeded; the pump starts
\* (it first clears freeImages).
CreateBegin(target) ==
    /\ CreateEntry
    /\ poolTarget' = target
    /\ resolved' = TRUE
    /\ dpyRef' = eGbmRefHandle(dpyRef)
    /\ surfMem' = "live"
    /\ surf' = [ZeroSurf EXCEPT !.refCount = 1, !.stream = TRUE, !.egl = TRUE,
                                !.freeImages = FALSE]
    /\ streamLive' = TRUE
    /\ eglLive' = TRUE
    /\ pc' = "pump"
    /\ caller' = "create"
    /\ calls' = [calls EXCEPT !.pump = @ + 1]
    /\ UNCHANGED <<buildVars, registered, priv, liveImages, acquired, liveBos,
                   pumpVars, ret, error, firstBo, ub>>

\* The initial pump failed (addFailed = FALSE), or it succeeded and
\* eGbmAddObject returned no handle (addFailed = TRUE): EGL_BAD_ALLOC.
CreateFailLate(addFailed) ==
    /\ pc = "after"
    /\ caller = "create"
    /\ pumpOk = addFailed
    /\ FreeSurface(FALSE, surf, Env, FALSE)
    /\ poolTarget' = 0
    /\ CreateFailReturn("EGL_BAD_ALLOC")
    /\ UNCHANGED createVars

\* eGbmAddObject succeeded: SetSurf(s, surf); return (EGLSurface)surf.
CreateFinish ==
    /\ pc = "after"
    /\ caller = "create"
    /\ pumpOk
    /\ registered' = TRUE
    /\ priv' = TRUE
    /\ ret' = Ret("create", 1)
    /\ pc' = "ret"
    /\ caller' = "none"
    /\ UNCHANGED <<buildVars, surfMem, surf, dpyRef, pipeVars, pumpVars, calls,
                   error, createVars, firstBo, ub>>

(* --------------------------- PumpSurfEvents --------------------------- *)

\* PumpSurfEvents without "surf->freeImages = false".
PumpStartKeepsHint(s) == s

\* Entry of PumpSurfEvents on surface s: surf->freeImages = false.
PumpStart(s) == [s EXCEPT !.freeImages = FALSE]

\* The process is at the QueryStreamConsumerEventNV of the loop.
PumpQuery == pc = "pump"

\* The stream has an image to announce.
AddPending == Cardinality(liveImages) < poolTarget

\* The call record once the query has been made.
Queried == [calls EXCEPT !.query = 1]

\* The slot AddSurfImage claims: the first with no image and no buffer object.
AddSlot(s) ==
    FirstSlot({i \in Slots : s.images[i].image = EGL_NO_IMAGE_KHR
                             /\ s.images[i].bo = NULL})

\* The slot RemoveSurfImage, the lock and the release look for.
ImageSlot(s, img) == FirstSlot({i \in Slots : s.images[i].image = img})
BoSlot(s, bo) == FirstSlot({i \in Slots : s.images[i].bo = bo})

\* The slots that hold a buffer object and no image.
Orphans(s) ==
    {i \in Slots : s.images[i].image = EGL_NO_IMAGE_KHR /\ s.images[i].bo # NULL}

\* CreateImageKHR returns a handle that names no live image.  Handles are
\* opaque, so the model takes the least free one.
NewImage == Min(ImageIds \ liveImages)

\* evStatus != EGL_TRUE: break, return true.
PumpNoEvent ==
    /\ PumpQuery
    /\ ~AddPending
    /\ calls' = Queried
    /\ pumpOk' = TRUE
    /\ pc' = "after"
    /\ UNCHANGED <<buildVars, caller, surfMem, surf, regVars, pipeVars, sawAvail,
                   ret, error, createVars, firstBo, ub>>

\* case EGL_STREAM_IMAGE_AVAILABLE_NV: freeImages = true ends the loop.
PumpAvailable ==
    /\ PumpQuery
    /\ ~AddPending
    /\ calls' = Queried
    /\ surf' = [surf EXCEPT !.freeImages = TRUE]
    /\ sawAvail' = TRUE
    /\ pumpOk' = TRUE
    /\ pc' = "after"
    /\ UNCHANGED <<buildVars, caller, surfMem, regVars, pipeVars, ret, error,
                   createVars, firstBo, ub>>

\* AddSurfImage that stores the image in slot 0 when the scan finds no slot.
AddSurfImageOverwrite(s, img) ==
    LET i == AddSlot(s) IN
    [s EXCEPT !.images[IF i = NoSlot THEN 0 ELSE i].image = img]

\* AddSurfImage(display, surf) on the surface fields: the fields afterwards.
\* img: what CreateImageKHR returns (EGL_NO_IMAGE_KHR when it fails).
AddSurfImage(s, img) ==
    LET i == AddSlot(s) IN
    IF i = NoSlot THEN s ELSE [s EXCEPT !.images[i].image = img]

\* ... and its return value.
AddSurfImageOk(s, img) == AddSlot(s) # NoSlot /\ img # EGL_NO_IMAGE_KHR

\* case EGL_STREAM_IMAGE_ADD_NV: if (!AddSurfImage(display, surf)) return false.
\* createOk: CreateImageKHR returns an image.
PumpAdd(createOk) ==
    /\ PumpQuery
    /\ AddPending
    /\ calls' = Queried
    /\ LET img == IF createOk THEN NewImage ELSE EGL_NO_IMAGE_KHR
           ok == AddSurfImageOk(surf, img)
       IN  /\ AddSlot(surf) = NoSlot => createOk
           /\ surf' = AddSurfImage(surf, img)
           /\ liveImages' = IF ok THEN liveImages \cup {img} ELSE liveImages
           /\ pumpOk' = IF ok THEN pumpOk ELSE FALSE
           /\ pc' = IF ok THEN "pump" ELSE "after"
    /\ UNCHANGED <<buildVars, caller, surfMem, regVars, streamLive, eglLive,
                   acquired, liveBos, poolTarget, sawAvail, ret, error,
                   createVars, firstBo, ub>>

\* RemoveSurfImage without "surf->images[i].image = EGL_NO_IMAGE_KHR".
RemoveSurfImageKeepsImage(s, img) ==
    LET i == ImageSlot(s, img) IN
    IF i # NoSlot /\ ~s.images[i].locked /\ s.images[i].bo # NULL
    THEN [s EXCEPT !.images[i].bo = NULL]
    ELSE s

\* RemoveSurfImage without the test of locked.
RemoveSurfImageDropsLocked(s, img) ==
    LET i == ImageSlot(s, img) IN
    IF i = NoSlot THEN s
    ELSE [s EXCEPT !.images[i].image = EGL_NO_IMAGE_KHR, !.images[i].bo = NULL]

\* RemoveSurfImage(display, surf, img) on the surface fields.
RemoveSurfImage(s, img) ==
    LET i == ImageSlot(s, img) IN
    IF i = NoSlot THEN s
    ELSE IF ~s.images[i].locked /\ s.images[i].bo # NULL
    THEN [s EXCEPT !.images[i].image = EGL_NO_IMAGE_KHR, !.images[i].bo = NULL]
    ELSE [s EXCEPT !.images[i].image = EGL_NO_IMAGE_KHR]

\* case EGL_STREAM_IMAGE_REMOVE_NV: RemoveSurfImage on the image in aux.
PumpRemove(img) ==
    /\ PumpQuery
    /\ img \in liveImages \cap Frames
    /\ img \in acquired => Cardinality(Orphans(surf)) < MaxOrphans
    /\ LET i == ImageSlot(surf, img)
           found == i # NoSlot
           drop == found /\ ~surf.images[i].locked /\ surf.images[i].bo # NULL
           bo == IF found THEN surf.images[i].bo ELSE NULL
       IN  /\ surf' = RemoveSurfImage(surf, img)
           /\ liveImages' = IF found THEN liveImages \ {img} ELSE liveImages
           /\ acquired' = IF found THEN acquired \ {img} ELSE acquired
           /\ liveBos' = IF drop THEN BoDestroy(liveBos, bo) ELSE liveBos
           /\ ub' = IF drop /\ IsDoubleFree(liveBos, bo) THEN "double_free" ELSE ub
           /\ calls' = [Queried EXCEPT !.boDestroy = @ + (IF drop THEN 1 ELSE 0)]
           /\ firstBo' = IF found THEN [firstBo EXCEPT ![img] = NULL] ELSE firstBo
    /\ UNCHANGED <<buildVars, pc, caller, surfMem, regVars, streamLive, eglLive,
                   poolTarget, pumpVars, ret, error, createVars>>

\* default: assert(!"Unhandled EGLImage stream consumer event").  With NDEBUG
\* the event is ignored and the loop goes on; otherwise the process aborts.
PumpUnhandled ==
    /\ PumpQuery
    /\ calls' = Queried
    /\ pc' = IF ndebug THEN "pump" ELSE "dead"
    /\ UNCHANGED <<buildVars, caller, surfMem, surf, regVars, pipeVars, pumpVars,
                   ret, error, createVars, firstBo, ub>>

(* ---------------------- eGbmSurfaceHasFreeBuffers --------------------- *)

\* GetSurf(s): the native window's private pointer.  It is set by SetSurf in
\* the create hook and by nothing else, so it outlives the object.
SurfIsNull == ~priv
SurfDangles == priv /\ surfMem = "freed"

\* An entry point reads the freed GbmSurface: anything may be returned, or the
\* process may fault.
UseAfterFree(op, vals, crash) ==
    /\ pc = "idle"
    /\ SurfDangles
    /\ ub' = "use_after_free"
    /\ IF crash
       THEN pc' = "dead" /\ UNCHANGED ret
       ELSE pc' = "undef" /\ \E v \in vals : ret' = Ret(op, v)
    /\ UNCHANGED <<buildVars, caller, surfMem, surf, regVars, pipeVars, pumpVars,
                   calls, error, createVars, firstBo>>

\* if (!surf) return 0;  if (surf->freeImages) return 1;
HasFreeBuffersQuick ==
    /\ pc = "idle"
    /\ ~SurfDangles
    /\ SurfIsNull \/ surf.freeImages
    /\ ret' = [Ret("has", IF SurfIsNull THEN 0 ELSE 1) EXCEPT
                   !.hint = surf.freeImages]
    /\ pc' = "ret"
    /\ UNCHANGED <<buildVars, caller, surfMem, surf, regVars, pipeVars, pumpVars,
                   calls, error, createVars, firstBo, ub>>

\* Otherwise PumpSurfEvents(surf->base.dpy, surf) starts.
HasFreeBuffersPump ==
    /\ pc = "idle"
    /\ ~SurfDangles
    /\ ~SurfIsNull
    /\ ~surf.freeImages
    /\ surf' = PumpStart(surf)
    /\ pc' = "pump"
    /\ caller' = "has"
    /\ calls' = [calls EXCEPT !.pump = @ + 1]
    /\ ret' = [NoRet EXCEPT !.hint = surf.freeImages]
    /\ UNCHANGED <<buildVars, surfMem, regVars, pipeVars, pumpVars, error,
                   createVars, firstBo, ub>>

\* The result with the last line as "return true".
HasFreeBuffersResultNoHint(ok, s) == IF ok THEN 1 ELSE 0

\* The value returned once the pump is over:
\* if (!PumpSurfEvents(...)) return 0;  return surf->freeImages;
HasFreeBuffersResult(ok, s) == IF ~ok THEN 0 ELSE IF s.freeImages THEN 1 ELSE 0

HasFreeBuffersReturn ==
    /\ pc = "after"
    /\ caller = "has"
    /\ ret' = [ret EXCEPT !.op = "has",
                          !.val = HasFreeBuffersResult(pumpOk, surf)]
    /\ pc' = "ret"
    /\ caller' = "none"
    /\ UNCHANGED <<buildVars, surfMem, surf, regVars, pipeVars, pumpVars, calls,
                   error, createVars, firstBo, ub>>

HasFreeBuffersFreed(crash) == UseAfterFree("has", {0, 1}, crash)

(* --------------------- eGbmSurfaceLockFrontBuffer --------------------- *)

\* if (!surf) return NULL;
LockFrontBufferNull ==
    /\ pc = "idle"
    /\ SurfIsNull
    /\ ret' = Ret("lock", NULL)
    /\ pc' = "ret"
    /\ UNCHANGED <<buildVars, caller, surfMem, surf, regVars, pipeVars, pumpVars,
                   calls, error, createVars, firstBo, ub>>

\* Must pump events to ensure images are created before acquiring them.
LockFrontBufferPump ==
    /\ pc = "idle"
    /\ ~SurfDangles
    /\ ~SurfIsNull
    /\ surf' = PumpStart(surf)
    /\ pc' = "pump"
    /\ caller' = "lock"
    /\ calls' = [calls EXCEPT !.pump = @ + 1]
    /\ UNCHANGED <<buildVars, surfMem, regVars, pipeVars, pumpVars, ret, error,
                   createVars, firstBo, ub>>

LockResume ==
    /\ pc = "after"
    /\ caller = "lock"
    /\ caller' = "none"
    /\ UNCHANGED <<buildVars, surfMem, regVars, streamLive, eglLive, liveImages,
                   poolTarget, pumpVars, createVars>>

\* if (!PumpSurfEvents(...)) return NULL;
LockFrontBufferPumpFailed ==
    /\ LockResume
    /\ ~pumpOk
    /\ ret' = Ret("lock", NULL)
    /\ pc' = "ret"
    /\ UNCHANGED <<surf, acquired, liveBos, calls, error, firstBo, ub>>

\* StreamAcquireImageNV returns EGL_FALSE: EGL_BAD_SURFACE, return NULL.
LockFrontBufferNoFrame ==
    /\ LockResume
    /\ pumpOk
    /\ calls' = [calls EXCEPT !.acquire = @ + 1]
    /\ eGbmSetError("EGL_BAD_SURFACE")
    /\ ret' = Ret("lock", NULL)
    /\ pc' = "ret"
    /\ UNCHANGED <<surf, acquired, liveBos, firstBo, ub>>

\* What the materialisation of a buffer object can come to: one of
\* ExportDMABUFImageQueryMESA, ExportDMABUFImageMESA, gbm_bo_import fails, or
\* all succeed.
ExportOutcomes == {"query_failed", "export_failed", "import_failed", "ok"}

\* The code handed to eGbmSetError at fail:.
LockFailError == "EGL_BAD_ALLOC"

\* The fail: path without "surf->images[i].locked = false".
LockFailKeepsLock(s, i) == [s EXCEPT !.images[i].bo = NULL]

\* The slot fields at fail: (images[i].locked = false; a failed gbm_bo_import
\* has stored NULL in *bo).
LockFail(s, i) == [s EXCEPT !.images[i].locked = FALSE, !.images[i].bo = NULL]

\* StreamReleaseImageNV calls the fail: path makes.
LockFailReleases == 1

\* The addresses gbm_bo_import can return: an address that holds no buffer
\* object.  Addresses are opaque: the ones no slot remembers are alike, and
\* the model takes the least of them.
NewBoChoices ==
    LET free == BoIds \ liveBos
        stale == free \cap SlotBos(surf)
        fresh == free \ stale
    IN  stale \cup (IF fresh = {} THEN {} ELSE {Min(fresh)})

\* The buffer object the first lock of an image returned is remembered until
\* the image goes.
NoteFirstBo(img, bo) ==
    IF firstBo[img] = NULL THEN [firstBo EXCEPT ![img] = bo] ELSE firstBo

\* The lock without the test of *bo: it materialises on every call.
NeedsImportAlways(s, i) == TRUE

\* if (!*bo): the slot has no buffer object yet.
NeedsImport(s, i) == s.images[i].bo = NULL

\* The record of a lock that acquired img and returns bo.
LockRet(img, bo) ==
    [Ret("lock", bo) EXCEPT !.img = img, !.again = firstBo[img] # NULL]

\* The sync object of every StreamReleaseImageNV in the file.
ReleaseSync == "EGL_NO_SYNC_KHR"

\* StreamAcquireImageNV hands out img, an image of the stream that is not
\* acquired already.  The slot that holds img is locked; its buffer object is
\* returned, after materialising it (outcome, address b) when the slot has
\* none.
LockFrontBufferAcquire(img, outcome, b) ==
    /\ LockResume
    /\ pumpOk
    /\ img \in (liveImages \cap Frames) \ acquired
    /\ LET i == ImageSlot(surf, img)
           s1 == [surf EXCEPT !.freeImages = FALSE]
           c1 == [calls EXCEPT !.acquire = @ + 1]
       IN
       IF i = NoSlot
       THEN \* assert(bo) fails, or *bo dereferences NULL
            /\ outcome = "ok" /\ b = NULL
            /\ pc' = "dead"
            /\ surf' = s1
            /\ acquired' = acquired \cup {img}
            /\ calls' = c1
            /\ UNCHANGED <<error, liveBos, ret, firstBo, ub>>
       ELSE IF ~NeedsImport(surf, i)
       THEN \* return *bo: the cached buffer object
            /\ outcome = "ok" /\ b = surf.images[i].bo
            /\ surf' = [s1 EXCEPT !.images[i].locked = TRUE]
            /\ acquired' = acquired \cup {img}
            /\ calls' = c1
            /\ ret' = LockRet(img, b)
            /\ firstBo' = NoteFirstBo(img, b)
            /\ pc' = "ret"
            /\ UNCHANGED <<error, liveBos, ub>>
       ELSE IF outcome = "ok"
       THEN \* gbm_bo_import returns a new buffer object at address b
            /\ b \in NewBoChoices
            /\ surf' = [s1 EXCEPT !.images[i].locked = TRUE, !.images[i].bo = b]
            /\ acquired' = acquired \cup {img}
            /\ liveBos' = liveBos \cup {b}
            /\ calls' = [c1 EXCEPT !.export = 1, !.import = @ + 1]
            /\ ret' = LockRet(img, b)
            /\ firstBo' = NoteFirstBo(img, b)
            /\ pc' = "ret"
            /\ UNCHANGED <<error, ub>>
       ELSE \* goto fail
            /\ b = NULL
            /\ surf' = LockFail([s1 EXCEPT !.images[i].locked = TRUE], i)
            /\ eGbmSetError(LockFailError)
            /\ acquired' = IF LockFailReleases > 0 THEN acquired
                           ELSE acquired \cup {img}
            /\ calls' = [c1 EXCEPT
                   !.export = 1,
                   !.import = @ + (IF outcome = "import_failed" THEN 1 ELSE 0),
                   !.release = @ + LockFailReleases,
                   !.sync = IF LockFailReleases > 0 THEN ReleaseSync ELSE @]
            /\ ret' = LockRet(img, NULL)
            /\ pc' = "ret"
            /\ UNCHANGED <<liveBos, firstBo, ub>>

LockFrontBufferFreed(crash) == UseAfterFree("lock", {NULL} \cup BoIds, crash)

(* ---------------------- eGbmSurfaceReleaseBuffer ---------------------- *)

\* if (!surf || !bo) return;
ReleaseBufferNull(bo) ==
    /\ pc = "idle"
    /\ SurfIsNull \/ bo = NULL
    /\ bo \in {NULL, Min(BoIds)}
    /\ ret' = Ret("release", bo)
    /\ pc' = "ret"
    /\ UNCHANGED <<buildVars, caller, surfMem, surf, regVars, pipeVars, pumpVars,
                   calls, error, createVars, firstBo, ub>>

\* The buffer objects a caller passes: those the slots hold, and one address
\* no slot holds (all such are alike).
ReleaseArgs ==
    LET unknown == BoIds \ SlotBos(surf)
    IN  SlotBos(surf) \cup (IF unknown = {} THEN {} ELSE {Min(unknown)})

\* assert(img != EGL_NO_IMAGE_KHR) in a build that keeps assertions.
ReleaseAssertFails(img) == img = EGL_NO_IMAGE_KHR /\ ~ndebug

\* The scan for bo, the destruction of a buffer object whose image is gone,
\* the assertion, and StreamReleaseImageNV when the slot has an image.
\* crash: the allocator aborts on a double free.
ReleaseBuffer(bo, crash) ==
    /\ pc = "idle"
    /\ ~SurfDangles
    /\ ~SurfIsNull
    /\ bo \in ReleaseArgs
    /\ LET i == BoSlot(surf, bo)
           found == i # NoSlot
           img == IF found THEN surf.images[i].image ELSE EGL_NO_IMAGE_KHR
           destroys == found /\ img = EGL_NO_IMAGE_KHR
           doubleFree == destroys /\ IsDoubleFree(liveBos, bo)
           releases == img # EGL_NO_IMAGE_KHR /\ ~crash
       IN
       /\ crash => doubleFree
       /\ surf' = IF found THEN [surf EXCEPT !.images[i].locked = FALSE] ELSE surf
       /\ liveBos' = IF destroys THEN BoDestroy(liveBos, bo) ELSE liveBos
       /\ ub' = IF doubleFree THEN "double_free" ELSE ub
       /\ acquired' = IF releases THEN acquired \ {img} ELSE acquired
       /\ calls' = [calls EXCEPT
              !.boDestroy = @ + (IF destroys THEN 1 ELSE 0),
              !.release = @ + (IF releases THEN 1 ELSE 0),
              !.sync = IF releases THEN ReleaseSync ELSE @]
       /\ ret' = Ret("release", bo)
       /\ pc' = IF crash \/ ReleaseAssertFails(img) THEN "dead"
                ELSE IF doubleFree THEN "undef"
                ELSE "ret"
    /\ UNCHANGED <<buildVars, caller, surfMem, regVars, streamLive, eglLive,
                   liveImages, poolTarget, pumpVars, error, createVars,
                   firstBo>>

ReleaseBufferFreed(crash) == UseAfterFree("release", {NULL}, crash)

(* ------------------------ eGbmDestroySurfaceHook ---------------------- *)

\* eGbmRefHandle(dpy) finds no display: return EGL_FALSE.
DestroyBadDisplay ==
    /\ pc = "idle"
    /\ ret' = Ret("destroy", 0)
    /\ pc' = "ret"
    /\ UNCHANGED <<buildVars, caller, surfMem, surf, regVars, pipeVars, pumpVars,
                   calls, error, createVars, firstBo, ub>>

\* eGbmDestroyHandle(eglSurf) does not find the handle: return EGL_FALSE after
\* dropping the display reference the hook took.
DestroyUnknownHandle ==
    /\ pc = "idle"
    /\ dpyRef' = eGbmUnrefObject(eGbmRefHandle(dpyRef))
    /\ ret' = Ret("destroy", 0)
    /\ pc' = "ret"
    /\ UNCHANGED <<buildVars, caller, surfMem, surf, registered, priv, pipeVars,
                   pumpVars, calls, error, createVars, firstBo, ub>>

\* eGbmDestroyHandle(eglSurf) finds the surface's handle, removes it and
\* drops the registry's reference; at zero the object's free function,
\* FreeSurface, runs.  Then the hook drops its display reference (the hook's
\* own reference and its release are applied to the count FreeSurface works
\* on; when the process aborts inside FreeSurface the release never runs).
DestroySurfaceHook(crash) ==
    /\ pc = "idle"
    /\ registered
    /\ registered' = FALSE
    /\ LET n == eGbmUnrefObject(surf.refCount)
           e == [Env EXCEPT !.dpyRef = eGbmRefHandle(dpyRef)]
       IN
       IF n > 0
       THEN /\ ~crash
            /\ surf' = [surf EXCEPT !.refCount = n]
            /\ dpyRef' = eGbmUnrefObject(e.dpyRef)
            /\ ret' = Ret("destroy", 1)
            /\ pc' = "ret"
            /\ UNCHANGED <<surfMem, pipeVars, calls, firstBo, ub>>
       ELSE IF crash
       THEN /\ FreeSurface(FALSE, surf, e, TRUE)
            /\ pc' = "dead"
            /\ UNCHANGED <<surfMem, poolTarget, ret, firstBo>>
       ELSE /\ FreeSurface(FALSE, surf, [e EXCEPT !.dpyRef = eGbmUnrefObject(@)], FALSE)
            /\ poolTarget' = 0
            /\ surfMem' = "freed"
            /\ firstBo' = NoFirstBo
            /\ ret' = Ret("destroy", 1)
            /\ pc' = IF FreeDoubleFrees(surf, liveBos) THEN "undef" ELSE "ret"
    /\ UNCHANGED <<buildVars, caller, priv, pumpVars, error, createVars>>

(* ---------------------------- handle registry ------------------------ *)

\* The registry's calls as any of its callers may make them, on objects set
\* up the way the create hook sets up a surface.  A handle is never given to
\* a second object, and eGbmUnrefObject is handed a pointer to an object that
\* has not been freed.

\* A lookup that trusts the handle to be the address of a live object.
HandleFoundUnchecked(h, o) == TRUE

\* The table lookup of eGbmRefHandle and eGbmDestroyHandle.
HandleFound(h, o) == h[o].inTable

\* The decrement that does not free the object whose count reaches zero.
UnrefReachesZeroNever(n) == FALSE

\* The count after the decrement is zero.
UnrefReachesZero(n) == n = 0

\* The decrement of a reference count: at zero the entry leaves the table
\* and obj->free(obj) runs.
UnrefObject(h, o) ==
    LET n == eGbmUnrefObject(h[o].refCount) IN
    IF UnrefReachesZero(n)
    THEN [h EXCEPT ![o] = [refCount |-> n, inTable |-> FALSE,
                           freed |-> @.freed + 1]]
    ELSE [h EXCEPT ![o].refCount = n]

HandleRet(op, o, found) ==
    [op |-> op, obj |-> o, found |-> found, stale |-> handles[o].freed > 0]

\* eGbmAddObject(obj): the object enters the table (ok), or the table cannot
\* grow and no handle is returned.
HandleAdd(o, ok) ==
    /\ handles[o].freed = 0
    /\ ~handles[o].inTable
    /\ handles' = IF ok THEN [handles EXCEPT ![o].inTable = TRUE] ELSE handles
    /\ hret' = HandleRet("add", o, ok)
    /\ UNCHANGED <<ndebug, surfaceVars>>

\* eGbmRefHandle(handle): a handle the table holds gets its object one more
\* reference and the object is returned; any other handle gets NULL.
HandleRef(o) ==
    /\ handles[o].refCount < MaxRefCount
    /\ handles' = IF HandleFound(handles, o)
                  THEN [handles EXCEPT ![o].refCount = eGbmRefHandle(@)]
                  ELSE handles
    /\ hret' = HandleRet("ref", o, HandleFound(handles, o))
    /\ UNCHANGED <<ndebug, surfaceVars>>

\* eGbmUnrefObject(obj).
HandleUnref(o) ==
    /\ handles[o].freed = 0
    /\ handles[o].refCount > 0
    /\ handles' = UnrefObject(handles, o)
    /\ hret' = HandleRet("unref", o, TRUE)
    /\ UNCHANGED <<ndebug, surfaceVars>>

\* eGbmDestroyHandle(handle): one eGbmUnrefObject for a handle the table
\* holds; false for any other.
HandleDestroy(o) ==
    /\ handles' = IF HandleFound(handles, o) THEN UnrefObject(handles, o)
                  ELSE handles
    /\ hret' = HandleRet("destroy", o, HandleFound(handles, o))
    /\ UNCHANGED <<ndebug, surfaceVars>>

(* --------------------------- specification ---------------------------- *)

Next ==
    \/ Return
    \/ CreateBadDisplay
    \/ \E crash \in BOOLEAN : CreateNullWindow(crash)
    \/ \E err \in {"EGL_BAD_CONFIG", "EGL_BAD_ALLOC"} : CreateFailEarly(err)
    \/ \E step \in {"stream", "connect", "producer"} : CreateFailPipeline(step)
    \/ \E target \in PoolTargets : CreateBegin(target)
    \/ \E addFailed \in BOOLEAN : CreateFailLate(addFailed)
    \/ CreateFinish
    \/ PumpNoEvent
    \/ PumpAvailable
    \/ \E createOk \in BOOLEAN : PumpAdd(createOk)
    \/ \E img \in ImageIds : PumpRemove(img)
    \/ PumpUnhandled
    \/ HasFreeBuffersQuick
    \/ HasFreeBuffersPump
    \/ HasFreeBuffersReturn
    \/ \E crash \in BOOLEAN : HasFreeBuffersFreed(crash)
    \/ LockFrontBufferNull
    \/ LockFrontBufferPump
    \/ LockFrontBufferPumpFailed
    \/ LockFrontBufferNoFrame
    \/ \E img \in ImageIds, outcome \in ExportOutcomes, b \in {NULL} \cup BoIds :
           LockFrontBufferAcquire(img, outcome, b)
    \/ \E crash \in BOOLEAN : LockFrontBufferFreed(crash)
    \/ \E bo \in {NULL} \cup BoIds : ReleaseBufferNull(bo)
    \/ \E bo \in BoIds, crash \in BOOLEAN : ReleaseBuffer(bo, crash)
    \/ \E crash \in BOOLEAN : ReleaseBufferFreed(crash)
    \/ DestroyBadDisplay
    \/ DestroyUnknownHandle
    \/ \E crash \in BOOLEAN : DestroySurfaceHook(crash)

Spec == Init /\ [][Next]_vars

\* The handle registry alone, called in any order.
HandleNext ==
    \/ \E o \in Objects, ok \in BOOLEAN : HandleAdd(o, ok)
    \/ \E o \in Objects : HandleRef(o)
    \/ \E o \in Objects : HandleUnref(o)
    \/ \E o \in Objects : HandleDestroy(o)

HandleSpec == Init /\ [][HandleNext]_vars

(* ------------------------------ properties ---------------------------- *)

\* A create call that resolved its display has returned EGL_NO_SURFACE.
CreateFailed ==
    pc = "ret" /\ ret.op = "create" /\ ret.val = 0 /\ resolved

\* C1: when the create hook fails after it resolved the display, everything
\* the call allocated is torn down, no surface is registered or attached to
\* the native window, and the display's reference count is what it was
\* before the call.
C1_FailedCreateRollsBack ==
    CreateFailed =>
        /\ dpyRef = refBefore
        /\ ~streamLive /\ ~eglLive /\ liveImages = {} /\ liveBos = {}
        /\ surfMem = "none"
        /\ ~registered /\ ~priv

\* C2: every failing path of the create hook that resolved the display hands
\* eGbmSetError a code other than EGL_SUCCESS.
C2_FailedCreateReportsError ==
    CreateFailed => error \notin {"none", "EGL_SUCCESS"}

\* C3: once the surface has been destroyed, eGbmSurfaceHasFreeBuffers returns
\* 0 and eGbmSurfaceLockFrontBuffer returns NULL on its native window, and
\* neither reads the destroyed object nor calls the pipeline.
C3_DestroyedSurfaceNotFound ==
    surfMem = "freed" =>
        /\ ub # "use_after_free"
        /\ ret.op \in {"has", "lock"} =>
               pc = "ret" /\ ret.val = 0 /\ calls = NoCalls

\* Slot i is locked and the stream has removed its image.
RemovedWhileLocked(s, i) ==
    /\ s.images[i].locked
    /\ s.images[i].image = EGL_NO_IMAGE_KHR
    /\ s.images[i].bo # NULL

\* C4: an image removed while its slot is locked leaves the slot's buffer
\* object alive until the holder releases it; the release of that buffer
\* object destroys it, clears the slot's lock and makes no
\* StreamReleaseImageNV call.
C4_ReleaseAfterRemoval ==
    [][/\ \A img \in ImageIds : PumpRemove(img) =>
              \A i \in Slots :
                  surf.images[i].locked /\ surf.images[i].image = img =>
                      /\ RemovedWhileLocked(surf', i)
                      /\ surf'.images[i].bo = surf.images[i].bo
                      /\ liveBos' = liveBos
       /\ \A bo \in BoIds, crash \in BOOLEAN : ReleaseBuffer(bo, crash) =>
              \A i \in Slots :
                  RemovedWhileLocked(surf, i) /\ surf.images[i].bo = bo =>
                      /\ bo \in liveBos
                      /\ bo \notin liveBos'
                      /\ ~surf'.images[i].locked
                      /\ calls'.release = 0]_vars

\* A lock has acquired an image and returned.
LockAcquired == pc = "ret" /\ ret.op = "lock" /\ ret.img # EGL_NO_IMAGE_KHR

\* C5: a lock of an image that an earlier lock has returned a buffer object
\* for, and that the stream has not removed since, returns that same buffer
\* object and makes no export or import call; the buffer object a first lock
\* returns comes from one export and one import.
C5_SecondLockHitsCache ==
    LockAcquired =>
        /\ ret.again =>
               /\ ret.val # NULL
               /\ ret.val = firstBo[ret.img]
               /\ calls.export = 0 /\ calls.import = 0
        /\ (~ret.again /\ ret.val # NULL) =>
               /\ ret.val = firstBo[ret.img]
               /\ calls.export = 1 /\ calls.import = 1

C5_Witness == LockAcquired /\ ret.again /\ ret.val # NULL

\* C6: eGbmSurfaceHasFreeBuffers on a live surface returns 1 with no pump and
\* no query when freeImages is set; otherwise it runs one pump, in which
\* freeImages is clear until an available event sets it, and returns 1 exactly
\* when that pump succeeded and saw an available event.
C6_HasFreeBuffersResult ==
    /\ pc = "pump" => ~surf.freeImages
    /\ (pc = "ret" /\ ret.op = "has" /\ ~SurfIsNull) =>
           IF ret.hint
           THEN ret.val = 1 /\ calls.pump = 0 /\ calls.query = 0
           ELSE /\ calls.pump = 1
                /\ ret.val = 1 <=> (pumpOk /\ sawAvail)

C6_Witness ==
    /\ pc = "ret" /\ ret.op = "has" /\ ~SurfIsNull
    /\ ~ret.hint /\ pumpOk /\ ~sawAvail /\ ret.val = 0

\* No slot has both no image and no buffer object.
PoolFull(s) == AddSlot(s) = NoSlot

\* C7: an image-added event processed when no slot is empty makes the pump
\* return false and leaves every slot as it was, the images added by earlier
\* events of the same pump included.
C7_AddOnFullPoolFails ==
    [][\A createOk \in BOOLEAN :
           (PumpAdd(createOk) /\ PoolFull(surf)) =>
               /\ surf'.images = surf.images
               /\ pc' = "after"
               /\ ~pumpOk']_vars

C7_Witness ==
    /\ pc = "after" /\ ~pumpOk /\ caller = "create"
    /\ PoolFull(surf)
    /\ Cardinality(SlotImages(surf)) = MAX_STREAM_IMAGES

\* A lock acquired an image, tried to materialise its buffer object and
\* returned NULL.
LockMaterializeFailed ==
    /\ pc = "ret" /\ ret.op = "lock" /\ ret.val = NULL
    /\ calls.acquire = 1 /\ calls.export = 1

\* C8: when the materialisation fails, the slot is left unlocked with no
\* buffer object and its image, the image has been released to the stream
\* once with no sync object, EGL_BAD_ALLOC is recorded and NULL is returned.
C8_FailedMaterializeRollsBack ==
    LockMaterializeFailed =>
        LET i == ImageSlot(surf, ret.img) IN
        /\ i # NoSlot
        /\ ~surf.images[i].locked
        /\ surf.images[i].bo = NULL
        /\ ret.img \notin acquired
        /\ calls.release = 1
        /\ calls.sync = "EGL_NO_SYNC_KHR"
        /\ error = "EGL_BAD_ALLOC"

C8_Witness == LockMaterializeFailed /\ calls.import = 1

\* C9: eGbmSurfaceReleaseBuffer with a buffer object no slot holds changes no
\* slot, calls nothing, destroys nothing, and returns without an error.
C9_UnknownReleaseIsNoOp ==
    [][\A bo \in BoIds, crash \in BOOLEAN :
           (ReleaseBuffer(bo, crash) /\ BoSlot(surf, bo) = NoSlot) =>
               /\ surf' = surf
               /\ calls' = calls
               /\ liveBos' = liveBos /\ liveImages' = liveImages
               /\ acquired' = acquired
               /\ error' = error
               /\ pc' = "ret"]_vars

\* C10: destroying the surface, whatever its slots hold, destroys every live
\* image and every live buffer object of the slots, the producer surface and
\* the stream, and drops the one display reference the surface holds.
C10_DestroyReleasesEverything ==
    [][\A crash \in BOOLEAN :
           DestroySurfaceHook(crash) =>
               /\ liveImages' = {} /\ liveBos' = {}
               /\ ~streamLive' /\ ~eglLive'
               /\ dpyRef' = eGbmUnrefObject(dpyRef)
               /\ ub' = "none"
               /\ pc' = "ret"]_vars

\* Slot i is held by a lock that returned its buffer object, and the stream
\* has not removed its image since.
LockedWithFrame(s, i) ==
    /\ s.images[i].locked
    /\ s.images[i].image # EGL_NO_IMAGE_KHR
    /\ s.images[i].bo # NULL

\* C11: a lock that returns a buffer object while other slots are locked
\* locks a slot none of them is and returns a buffer object none of them
\* holds; and the release of the buffer object of a locked slot whose image
\* was not removed unlocks that slot and leaves it its image and its buffer
\* object, alive.
C11_LocksDistinctReleaseRestores ==
    [][/\ \A img \in ImageIds, b \in BoIds :
              (LockFrontBufferAcquire(img, "ok", b) /\ pc' = "ret") =>
                  \A j \in Slots :
                      surf.images[j].locked =>
                          /\ j # ImageSlot(surf, img)
                          /\ surf.images[j].bo # ret'.val
       /\ \A bo \in BoIds, crash \in BOOLEAN : ReleaseBuffer(bo, crash) =>
              \A i \in Slots :
                  LockedWithFrame(surf, i) /\ surf.images[i].bo = bo =>
                      /\ ~surf'.images[i].locked
                      /\ surf'.images[i].image = surf.images[i].image
                      /\ surf'.images[i].bo = bo
                      /\ bo \in liveBos']_vars

\* C12: whatever calls the registry has served, an object's free function
\* has run once when its reference count is zero and not at all while it is
\* positive: it runs at the step that takes the count to zero, and neither
\* before nor after.
C12_FreedOnceAtZero ==
    \A o \in Objects :
        /\ handles[o].refCount >= 0
        /\ handles[o].freed = IF handles[o].refCount = 0 THEN 1 ELSE 0

\* The last reference was dropped by eGbmUnrefObject while a second object
\* had been resolved more than once.
C12_Witness ==
    /\ hret.op = "unref"
    /\ handles[hret.obj].freed = 1
    /\ \E o \in Objects : handles[o].refCount = MaxRefCount

\* C13: eGbmRefHandle on the handle of an object whose reference count has
\* reached zero returns NULL and leaves the count at zero.
C13_StaleHandleNotFound ==
    (hret.op = "ref" /\ hret.stale) =>
        /\ ~hret.found
        /\ handles[hret.obj].refCount = 0
        /\ ~handles[hret.obj].inTable

C13_Witness ==
    /\ hret.op = "ref" /\ hret.stale
    /\ \E o \in Objects : handles[o].inTable

\* The process is between two events of a pump, or between two entry points.
OperationBoundary == pc \in {"idle", "pump", "after", "ret"}

\* C14: at every operation boundary no slot is unlocked with no image and a
\* buffer object: the buffer object of a removed image is destroyed, and the
\* slot's field cleared, as soon as the slot is unlocked.
C14_NoOrphanBufferObject ==
    OperationBoundary =>
        \A i \in Slots :
            ~(/\ surf.images[i].image = EGL_NO_IMAGE_KHR
              /\ ~surf.images[i].locked
              /\ surf.images[i].bo # NULL)

\* C15: while the stream has fewer than MAX_STREAM_IMAGES live images and no
\* slot is still locked for a removed image, an image-added event finds an
\* empty slot: the pump does not fail for lack of one.
C15_AddFindsEmptySlot ==
    (pc = "after" /\ ~pumpOk /\ PoolFull(surf)) =>
        \/ Cardinality(liveImages) >= MAX_STREAM_IMAGES
        \/ \E i \in Slots : RemovedWhileLocked(surf, i)

\* C16: a pump that has returned either saw an available event and left
\* freeImages set, or failed.
C16_SuccessMeansAvailable ==
    (pc = "after" /\ pumpOk) => (sawAvail /\ surf.freeImages)

\* C16 as amended: a pump returns true after an available event or after a
\* query that gave no event, and leaves freeImages set exactly when it saw
\* an available event; it returns false only on an image-added event (the
\* stream still has that image to announce), with freeImages clear.
C16_PumpEnds ==
    pc = "after" =>
        /\ calls.query = 1
        /\ IF pumpOk
           THEN surf.freeImages <=> sawAvail
           ELSE ~surf.freeImages /\ ~sawAvail /\ AddPending

C16_Witness ==
    pc = "after" /\ caller = "lock" /\ pumpOk /\ ~sawAvail /\ ~surf.freeImages

\* C17: in every state, between the events of a pump included, no two slots
\* hold the same image.
C17_UniqueFrameIds ==
    \A i, j \in Slots :
        (i # j /\ surf.images[i].image # EGL_NO_IMAGE_KHR) =>
            surf.images[i].image # surf.images[j].image

\* A frame's image was removed while locked and its handle, given out again,
\* sits in another slot.
C17_Witness ==
    \E i, j \in Slots :
        /\ RemovedWhileLocked(surf, i)
        /\ surf.images[j].image \in Frames

\* C18: no gbm_bo_destroy is ever made on a buffer object that was destroyed
\* before.
C18_DestroyedAtMostOnce == ub # "double_free"

\* C19: eGbmSurfaceReleaseBuffer makes a StreamReleaseImageNV call only for a
\* slot that is locked, on an image that is acquired.
C19_ReleaseOnlyWhenLocked ==
    [][\A bo \in BoIds, crash \in BOOLEAN :
           (ReleaseBuffer(bo, crash) /\ calls'.release > calls.release) =>
               LET i == BoSlot(surf, bo) IN
               /\ i # NoSlot
               /\ surf.images[i].locked
               /\ surf.images[i].image \in acquired]_vars

\* C20: at every operation boundary a locked slot has a buffer object.
C20_LockedHasBufferObject ==
    OperationBoundary =>
        \A i \in Slots : surf.images[i].locked => surf.images[i].bo # NULL

\* The pump has just taken the image of a locked slot away.
C20_Witness ==
    /\ pc = "pump"
    /\ \E i \in Slots : RemovedWhileLocked(surf, i) /\ surf.images[i].bo \in liveBos

====
